---- MODULE Spec2Model ----
(***************************************************************************)
(* Delta audio codecs of polygonGBA.                                       *)
(*                                                                         *)
(*   - compression/encoder/delta_encoder.py: DeltaEncoder, the             *)
(*     variable-width (4/8/12 bit) delta codec and its bit packer;         *)
(*   - compression/encoder/gba_optimized_codec.py: the byte-aligned        *)
(*     8-bit delta container ("FQWT") and its test decoder.                *)
(*                                                                         *)
(* Normalised samples are floats in the source.  Here a sample is an       *)
(* integer count of 1/Unit (Unit = 1000), so that the thresholds 0.01 and  *)
(* 0.1 are 10 and 100 and every product the code forms is exact.  A value  *)
(* rebuilt by the decoder is a sum of fractions over 32767, 7, 127 and     *)
(* 2047; it is kept as the four numerators (a "Rat").                      *)
(***************************************************************************)
EXTENDS Integers, Sequences, FiniteSets, TLC

\* ---------------------------------------------------------------- bounds
MaxLen == 3          \* longest audio buffer given to compress_audio_delta
MaxEntries == 3      \* longest entry list given directly to pack_encoded_data
MaxLenD == 3         \* longest resampled buffer given to the dithered 8-bit encoder
MaxLen8 == 3         \* longest int8 buffer given to the 8-bit codec
MaxCut == 2          \* most bytes lost from the end of a stored .pgda file
MaxDelta == 2100     \* largest |delta|, in 1/Unit, given directly to quantize_delta

\* ---------------------------------------------------------- input values
Unit == 1000
SampleVals == {-1000, -2, 0, 5, 10, 100, 1000}
Scenario == <<0, 5, -2, 500, -500>>
Q8Vals == {-128, -1, 0, 127}
EntryVals ==
  {<<"small", 4, -8>>, <<"small", 4, 5>>,
   <<"medium", 8, 255>>, <<"medium", 8, 100>>,
   <<"large", 12, -2048>>, <<"large", 12, 1365>>,
   <<"reference", 16, 40000>>, <<"reference", 16, 4660>>}

SeqsUpTo(S, n) == UNION {[1..m -> S] : m \in 0..n}

\* ------------------------------------------------------- integer helpers
Abs(x) == IF x < 0 THEN -x ELSE x
Max2(a, b) == IF a >= b THEN a ELSE b
Min2(a, b) == IF a <= b THEN a ELSE b

\* Python int(x) of the real a/b (b > 0): truncation toward zero.
PyInt(a, b) == IF a >= 0 THEN a \div b ELSE -((-a) \div b)

Pow2(n) == 2 ^ n

\* a | b on non-negative integers
RECURSIVE BitOr(_, _)
BitOr(a, b) ==
  IF a = 0 THEN b
  ELSE IF b = 0 THEN a
  ELSE Max2(a % 2, b % 2) + 2 * BitOr(a \div 2, b \div 2)

\* (mutation: the mask is one bit short)
MaskBitsShort(value, bits) == value % Pow2(bits - 1)

\* value & ((1 << bits) - 1) on a Python int of either sign
MaskBits(value, bits) == value % Pow2(bits)

\* (mutation: most significant byte first)
U32BE(n) == <<(n \div 16777216) % 256, (n \div 65536) % 256, (n \div 256) % 256, n % 256>>

\* struct.pack('<I', n): four bytes, least significant first
U32LE(n) == <<n % 256, (n \div 256) % 256, (n \div 65536) % 256, (n \div 16777216) % 256>>

\* the reading of four bytes as a little-endian u32
U32Read(b) == b[1] + 256 * b[2] + 65536 * b[3] + 16777216 * b[4]

\* ------------------------------------------------ DeltaEncoder.__init__
small_delta_threshold == 10      \* 0.01 in 1/Unit
medium_delta_threshold == 100    \* 0.1 in 1/Unit
quantization_levels == [b \in {4, 8, 12} |-> Pow2(b)]

\* ------------------------------------------------------------ rationals
Dens == {32767, 7, 127, 2047}
RatZero == [d \in Dens |-> 0]
RatOf(num, den) == [RatZero EXCEPT ![den] = num]
RatAdd(r, num, den) == [r EXCEPT ![den] = @ + num]

\* a/b <= c/d for b, d > 0, by continued fractions (no product is formed)
RECURSIVE FracLeq(_, _, _, _)
FracLeq(a, b, c, d) ==
  LET qa == a \div b
      qc == c \div d
      ra == a % b
      rc == c % d
  IN  IF qa # qc THEN qa < qc
      ELSE IF ra = 0 THEN TRUE
      ELSE IF rc = 0 THEN FALSE
      ELSE FracLeq(d, rc, b, ra)

\* numerator over 4161409 = 32767 * 127 of the part of r over 32767, 7, 127
RatHead(r) == (r[32767] + 4681 * r[7]) * 127 + r[127] * 32767

\* value(r) <= a/Unit + e/2047   and   value(r) >= a/Unit + e/2047
RatLeq(r, a, e) == FracLeq(RatHead(r), 4161409, a * 2047 + Unit * (e - r[2047]), 2047 * Unit)
RatGeq(r, a, e) == FracLeq(a * 2047 + Unit * (e - r[2047]), 2047 * Unit, RatHead(r), 4161409)

\* ----------------------------------------------------------------- state
VARIABLES
  pc, status, k,                                            \* control: stage, raised error, loop index
  audio, encoded_data, compression_info, first_sample,      \* compress_audio_delta
  file, bit_buffer, bits_in_buffer,                         \* pack_encoded_data
  reconstructed, unpacked,                                  \* decode_delta_data, unpack
  qdelta, qbits, qresult,                                   \* one call of quantize_delta
  audio_8bit, deltas8, pgda, transport, legacy_promotion,   \* 8-bit codec, encode side
  hdr, dec_deltas, current_sample, cur_type, recon8, reconstructed_audio, \* decode side
  audio_data,                                               \* ffmpeg_to_pgda: the decoded PCM
  audio_scaled, run, first_run                              \* 8-bit codec run twice on one input

deltav == <<audio, encoded_data, compression_info, first_sample,
            file, bit_buffer, bits_in_buffer, reconstructed, unpacked>>
quantv == <<qdelta, qbits, qresult>>
gbav == <<audio_8bit, deltas8, pgda, transport, legacy_promotion,
          hdr, dec_deltas, current_sample, cur_type, recon8, reconstructed_audio>>

auxv == <<audio_data, audio_scaled, run, first_run>>

vars == <<pc, status, k, deltav, quantv, gbav, auxv>>

\* --------------------------------------- DeltaEncoder.quantize_delta
max_val(bits) == quantization_levels[bits] \div 2 - 1
min_val(bits) == -max_val(bits) - 1
\* (mutation: the scaled delta is rounded away from zero)
ScaledAway(delta, bits) ==
  IF (delta * max_val(bits)) % Unit = 0 THEN (delta * max_val(bits)) \div Unit
  ELSE IF delta > 0 THEN PyInt(delta * max_val(bits), Unit) + 1
  ELSE PyInt(delta * max_val(bits), Unit) - 1

\* line 36: int(delta * max_val / 1.0)
Scaled(delta, bits) == PyInt(delta * max_val(bits), Unit)
\* (mutation: the clamp of line 38 is missing)
quantize_unclamped(delta, bits) == Scaled(delta, bits)

quantize_delta(delta, bits) == Max2(min_val(bits), Min2(max_val(bits), Scaled(delta, bits)))

\* ------------------------------- DeltaEncoder.compress_audio_delta
Diff(a) == [i \in 1..(Len(a) - 1) |-> a[i + 1] - a[i]]

\* (mutation: <= in place of <, the boundary falls into the lower tier)
TierBitsInclusive(delta) ==
  IF Abs(delta) <= small_delta_threshold THEN 4
  ELSE IF Abs(delta) <= medium_delta_threshold THEN 8
  ELSE 12

\* the if / elif / else of the encoding loop
TierBits(delta) ==
  IF Abs(delta) < small_delta_threshold THEN 4
  ELSE IF Abs(delta) < medium_delta_threshold THEN 8
  ELSE 12
TierName(bits) == IF bits = 4 THEN "small" ELSE IF bits = 8 THEN "medium" ELSE "large"
EncodeEntry(delta) ==
  LET bits == TierBits(delta) IN <<TierName(bits), bits, quantize_delta(delta, bits)>>

\* the three numpy masks of the statistics
SmallMask(d) == Abs(d) < small_delta_threshold
MediumMask(d) == Abs(d) >= small_delta_threshold /\ Abs(d) < medium_delta_threshold
LargeMask(d) == Abs(d) >= medium_delta_threshold
\* len(deltas[mask])
SmallCount(s) == Cardinality({i \in 1..Len(s) : SmallMask(s[i])})
MediumCount(s) == Cardinality({i \in 1..Len(s) : MediumMask(s[i])})
LargeCount(s) == Cardinality({i \in 1..Len(s) : LargeMask(s[i])})

RECURSIVE SumBits(_)
SumBits(ed) == IF ed = <<>> THEN 0 ELSE ed[1][2] + SumBits(Tail(ed))

NoInfo == [delta_samples |-> 0, compressed_bits |-> 0,
           small_deltas |-> 0, medium_deltas |-> 0, large_deltas |-> 0]

\* lines 43-68: deltas, masks, the three percentage prints (which divide by
\* len(deltas)), the reference entry.
CompressStart ==
  /\ pc = "compress"
  /\ IF Len(audio) <= 1
     THEN /\ pc' = "failed"
          /\ status' = "ZeroDivisionError"
          /\ UNCHANGED <<k, encoded_data, compression_info, first_sample>>
     ELSE /\ compression_info' =
               [NoInfo EXCEPT !.delta_samples = Len(Diff(audio)),
                              !.small_deltas = SmallCount(Diff(audio)),
                              !.medium_deltas = MediumCount(Diff(audio)),
                              !.large_deltas = LargeCount(Diff(audio))]
          /\ first_sample' = PyInt(audio[1] * 32767, Unit)
          /\ encoded_data' = <<<<"reference", 16, PyInt(audio[1] * 32767, Unit)>>>>
          /\ k' = 1
          /\ pc' = "encode"
          /\ UNCHANGED status
  /\ UNCHANGED <<audio, file, bit_buffer, bits_in_buffer, reconstructed, unpacked>>
  /\ UNCHANGED <<quantv, gbav, auxv>>

\* (mutation: the loop body never advances)
CompressStepStalled ==
  /\ pc = "encode"
  /\ k <= Len(Diff(audio))
  /\ UNCHANGED vars

\* lines 71-82: one iteration of the encoding loop
CompressStep ==
  /\ pc = "encode"
  /\ k <= Len(Diff(audio))
  /\ encoded_data' = Append(encoded_data, EncodeEntry(Diff(audio)[k]))
  /\ k' = k + 1
  /\ UNCHANGED <<pc, status, audio, compression_info, first_sample,
                 file, bit_buffer, bits_in_buffer, reconstructed, unpacked>>
  /\ UNCHANGED <<quantv, gbav, auxv>>

\* lines 84-111: statistics and the result dictionary
CompressFinish ==
  /\ pc = "encode"
  /\ k > Len(Diff(audio))
  /\ compression_info' = [compression_info EXCEPT !.compressed_bits = SumBits(encoded_data)]
  /\ pc' = "pack"
  /\ UNCHANGED <<status, k, audio, encoded_data, first_sample,
                 file, bit_buffer, bits_in_buffer, reconstructed, unpacked>>
  /\ UNCHANGED <<quantv, gbav, auxv>>

\* ---------------------------------- DeltaEncoder.pack_encoded_data
MagicPGDD == <<80, 71, 68, 68>>

\* (mutation: a u32 sample rate is written after the entry count)
PackHeaderWithRate ==
  /\ pc = "pack"
  /\ file' = MagicPGDD \o U32LE(Len(encoded_data)) \o U32LE(44100)
  /\ bit_buffer' = 0
  /\ bits_in_buffer' = 0
  /\ k' = 1
  /\ pc' = "packloop"
  /\ UNCHANGED <<status, audio, encoded_data, compression_info, first_sample,
                 reconstructed, unpacked>>
  /\ UNCHANGED <<quantv, gbav, auxv>>

\* lines 118-125: header and the empty bit buffer
PackHeader ==
  /\ pc = "pack"
  /\ file' = MagicPGDD \o U32LE(Len(encoded_data))
  /\ bit_buffer' = 0
  /\ bits_in_buffer' = 0
  /\ k' = 1
  /\ pc' = "packloop"
  /\ UNCHANGED <<status, audio, encoded_data, compression_info, first_sample,
                 reconstructed, unpacked>>
  /\ UNCHANGED <<quantv, gbav, auxv>>

\* (mutation: the shift by bits_in_buffer is missing)
OrIntoNoShift(buf, nbits, value, bits) == BitOr(buf, MaskBits(value, bits))

\* bit_buffer |= (value & ((1 << bits) - 1)) << bits_in_buffer
OrInto(buf, nbits, value, bits) == BitOr(buf, MaskBits(value, bits) * Pow2(nbits))

\* lines 127-130: the entry is OR-ed in above the bits already held
PackEntry ==
  /\ pc = "packloop"
  /\ k <= Len(encoded_data)
  /\ bit_buffer' = OrInto(bit_buffer, bits_in_buffer, encoded_data[k][3], encoded_data[k][2])
  /\ bits_in_buffer' = bits_in_buffer + encoded_data[k][2]
  /\ pc' = "flush"
  /\ UNCHANGED <<status, k, audio, encoded_data, compression_info, first_sample,
                 file, reconstructed, unpacked>>
  /\ UNCHANGED <<quantv, gbav, auxv>>

\* (mutation: the written byte is not shifted out of the buffer)
PackFlushNoShift ==
  /\ pc = "flush"
  /\ bits_in_buffer >= 8
  /\ file' = Append(file, bit_buffer % 256)
  /\ bits_in_buffer' = bits_in_buffer - 8
  /\ UNCHANGED <<pc, status, k, audio, encoded_data, compression_info, first_sample,
                 bit_buffer, reconstructed, unpacked>>
  /\ UNCHANGED <<quantv, gbav, auxv>>

\* lines 133-136: one iteration of the flush loop
PackFlush ==
  /\ pc = "flush"
  /\ bits_in_buffer >= 8
  /\ file' = Append(file, bit_buffer % 256)
  /\ bit_buffer' = bit_buffer \div 256
  /\ bits_in_buffer' = bits_in_buffer - 8
  /\ UNCHANGED <<pc, status, k, audio, encoded_data, compression_info, first_sample,
                 reconstructed, unpacked>>
  /\ UNCHANGED <<quantv, gbav, auxv>>

\* (mutation: the loop moves on while a whole byte is still held)
PackNextEarly ==
  /\ pc = "flush"
  /\ bits_in_buffer < 16
  /\ k' = k + 1
  /\ pc' = "packloop"
  /\ UNCHANGED <<status, audio, encoded_data, compression_info, first_sample,
                 file, bit_buffer, bits_in_buffer, reconstructed, unpacked>>
  /\ UNCHANGED <<quantv, gbav, auxv>>

\* line 133 false: on to the next entry
PackNext ==
  /\ pc = "flush"
  /\ bits_in_buffer < 8
  /\ k' = k + 1
  /\ pc' = "packloop"
  /\ UNCHANGED <<status, audio, encoded_data, compression_info, first_sample,
                 file, bit_buffer, bits_in_buffer, reconstructed, unpacked>>
  /\ UNCHANGED <<quantv, gbav, auxv>>

\* (mutation: a last byte is written even when no bit is left)
PackFinalAlways ==
  /\ pc = "packloop"
  /\ k > Len(encoded_data)
  /\ file' = Append(file, bit_buffer % 256)
  /\ pc' = "packed"
  /\ UNCHANGED <<status, k, audio, encoded_data, compression_info, first_sample,
                 bit_buffer, bits_in_buffer, reconstructed, unpacked>>
  /\ UNCHANGED <<quantv, gbav, auxv>>

\* lines 138-145: the last partial byte
PackFinal ==
  /\ pc = "packloop"
  /\ k > Len(encoded_data)
  /\ file' = IF bits_in_buffer > 0 THEN Append(file, bit_buffer % 256) ELSE file
  /\ pc' = "packed"
  /\ UNCHANGED <<status, k, audio, encoded_data, compression_info, first_sample,
                 bit_buffer, bits_in_buffer, reconstructed, unpacked>>
  /\ UNCHANGED <<quantv, gbav, auxv>>

\* ---------------------------------- DeltaEncoder.decode_delta_data
\* line 156
DecodeStart ==
  /\ pc = "packed"
  /\ reconstructed' = <<RatOf(first_sample, 32767)>>
  /\ k' = 2
  /\ pc' = "decode"
  /\ UNCHANGED <<status, audio, encoded_data, compression_info, first_sample,
                 file, bit_buffer, bits_in_buffer, unpacked>>
  /\ UNCHANGED <<quantv, gbav, auxv>>

\* (mutation: the sum is clamped to [-1, 1])
NextSampleClamped(last, bits, quantized_delta) ==
  LET s == RatAdd(last, quantized_delta, max_val(bits))
  IN  IF ~RatGeq(s, -Unit, 0) THEN RatOf(-32767, 32767)
      ELSE IF ~RatLeq(s, Unit, 0) THEN RatOf(32767, 32767)
      ELSE s

\* lines 161-165: next_sample = reconstructed[-1] + quantized_delta / max_val
NextSample(last, bits, quantized_delta) == RatAdd(last, quantized_delta, max_val(bits))

\* lines 159-166: one iteration over encoded_data[1:]
DecodeStep ==
  /\ pc = "decode"
  /\ k <= Len(encoded_data)
  /\ reconstructed' = Append(reconstructed,
        NextSample(reconstructed[Len(reconstructed)], encoded_data[k][2], encoded_data[k][3]))
  /\ k' = k + 1
  /\ UNCHANGED <<pc, status, audio, encoded_data, compression_info, first_sample,
                 file, bit_buffer, bits_in_buffer, unpacked>>
  /\ UNCHANGED <<quantv, gbav, auxv>>

\* line 168
DecodeFinish ==
  /\ pc = "decode"
  /\ k > Len(encoded_data)
  /\ pc' = "done"
  /\ UNCHANGED <<status, k, audio, encoded_data, compression_info, first_sample,
                 file, bit_buffer, bits_in_buffer, reconstructed, unpacked>>
  /\ UNCHANGED <<quantv, gbav, auxv>>

\* ------------------------------------------- unpack (BitUnpacker)
\* The inverse of the packing loop: bytes are pulled while the accumulator
\* holds fewer bits than the next width; the stream is truncated when a byte
\* is needed and none is left.
RECURSIVE UnpackFrom(_, _, _, _, _, _, _)
UnpackFrom(buffer, pos, acc, nbits, widths, i, out) ==
  IF i > Len(widths) THEN [ok |-> TRUE, codes |-> out]
  ELSE IF nbits < widths[i]
       THEN IF pos > Len(buffer) THEN [ok |-> FALSE, codes |-> out]
            ELSE UnpackFrom(buffer, pos + 1, acc + buffer[pos] * Pow2(nbits), nbits + 8,
                            widths, i, out)
       ELSE UnpackFrom(buffer, pos, acc \div Pow2(widths[i]), nbits - widths[i],
                       widths, i + 1, Append(out, acc % Pow2(widths[i])))

unpack(buffer, widths) == UnpackFrom(buffer, 1, 0, 0, widths, 1, <<>>)

WidthsOf(ed) == [i \in 1..Len(ed) |-> ed[i][2]]
Payload(f) == SubSeq(f, 9, Len(f))

Unpack ==
  /\ pc = "packed"
  /\ LET r == unpack(Payload(file), WidthsOf(encoded_data))
     IN  /\ unpacked' = r.codes
         /\ status' = IF r.ok THEN "ok" ELSE "TruncatedStream"
  /\ pc' = "unpacked"
  /\ UNCHANGED <<k, audio, encoded_data, compression_info, first_sample,
                 file, bit_buffer, bits_in_buffer, reconstructed>>
  /\ UNCHANGED <<quantv, gbav, auxv>>

\* ------------------------------------------------------ idle components
IdleDelta ==
  /\ audio = <<>>
  /\ encoded_data = <<>>
  /\ compression_info = NoInfo
  /\ first_sample = 0
  /\ file = <<>>
  /\ bit_buffer = 0
  /\ bits_in_buffer = 0
  /\ reconstructed = <<>>
  /\ unpacked = <<>>

IdleQuant ==
  /\ qdelta = 0
  /\ qbits = 4
  /\ qresult = 0

IdleGba ==
  /\ audio_8bit = <<>>
  /\ deltas8 = <<>>
  /\ pgda = <<>>
  /\ transport = "intact"
  /\ legacy_promotion = FALSE
  /\ hdr = <<>>
  /\ dec_deltas = <<>>
  /\ current_sample = 0
  /\ cur_type = "int8"
  /\ recon8 = <<>>
  /\ reconstructed_audio = <<>>

IdleAux ==
  /\ audio_data = <<>>
  /\ audio_scaled = <<>>
  /\ run = 1
  /\ first_run = <<>>

\* ------------------------------------------------ process_audio_file
AudioInputs == SeqsUpTo(SampleVals, MaxLen) \cup {Scenario}

InitDelta ==
  /\ pc = "compress"
  /\ status = "ok"
  /\ k = 0
  /\ audio \in AudioInputs
  /\ encoded_data = <<>>
  /\ compression_info = NoInfo
  /\ first_sample = 0
  /\ file = <<>>
  /\ bit_buffer = 0
  /\ bits_in_buffer = 0
  /\ reconstructed = <<>>
  /\ unpacked = <<>>
  /\ IdleQuant
  /\ IdleGba
  /\ IdleAux

NextDelta ==
  \/ CompressStart
  \/ CompressStep
  \/ CompressFinish
  \/ PackHeader
  \/ PackEntry
  \/ PackFlush
  \/ PackNext
  \/ PackFinal
  \/ DecodeStart
  \/ DecodeStep
  \/ DecodeFinish

SpecDelta == InitDelta /\ [][NextDelta]_vars

\* --------------------------- pack_encoded_data on any entry list, unpack
InitPack ==
  /\ pc = "pack"
  /\ status = "ok"
  /\ k = 0
  /\ audio = <<>>
  /\ encoded_data \in SeqsUpTo(EntryVals, MaxEntries)
  /\ compression_info = NoInfo
  /\ first_sample = 0
  /\ file = <<>>
  /\ bit_buffer = 0
  /\ bits_in_buffer = 0
  /\ reconstructed = <<>>
  /\ unpacked = <<>>
  /\ IdleQuant
  /\ IdleGba
  /\ IdleAux

NextPack ==
  \/ PackHeader
  \/ PackEntry
  \/ PackFlush
  \/ PackNext
  \/ PackFinal
  \/ Unpack

SpecPack == InitPack /\ [][NextPack]_vars

\* ------------------------------------------- quantize_delta on its own
Quantize ==
  /\ pc = "quantize"
  /\ qresult' = quantize_delta(qdelta, qbits)
  /\ pc' = "quantized"
  /\ UNCHANGED <<status, k, qdelta, qbits, deltav, gbav, auxv>>

InitQuant ==
  /\ pc = "quantize"
  /\ status = "ok"
  /\ k = 0
  /\ qdelta \in -MaxDelta..MaxDelta
  /\ qbits \in {4, 8, 12}
  /\ qresult = 0
  /\ IdleDelta
  /\ IdleGba
  /\ IdleAux

NextQuant == Quantize

SpecQuant == InitQuant /\ [][NextQuant]_vars

\* ------------------------------------- gba_optimized_compression
target_sr == 6750
MagicFQWT == <<70, 81, 87, 84>>

\* one int8 as a byte (tobytes) and back (frombuffer)
I8Byte(x) == x % 256
I8Read(b) == IF b >= 128 THEN b - 256 ELSE b

\* (mutation: the clip keeps the symmetric range [-127, 127])
ClipSymmetric(d) == Max2(-127, Min2(127, d))

\* np.clip(deltas, -128, 127)
Clip8(d) == Max2(-128, Min2(127, d))

\* lines 52-60: int16 differences clipped to int8; audio_8bit[0] and the
\* np.min / np.max of the delta array need at least one element.
GbaDeltas ==
  /\ pc = "gba"
  /\ IF Len(audio_8bit) = 0
     THEN /\ pc' = "encode_failed"
          /\ status' = "IndexError"
          /\ UNCHANGED deltas8
     ELSE IF Len(audio_8bit) = 1
     THEN /\ pc' = "encode_failed"
          /\ status' = "ValueError"
          /\ UNCHANGED deltas8
     ELSE /\ deltas8' = [i \in 1..(Len(audio_8bit) - 1) |-> Clip8(Diff(audio_8bit)[i])]
          /\ pc' = "write"
          /\ UNCHANGED status
  /\ UNCHANGED <<k, audio_8bit, pgda, transport, legacy_promotion,
                 hdr, dec_deltas, current_sample, cur_type, recon8, reconstructed_audio>>
  /\ UNCHANGED <<deltav, quantv, auxv>>

\* (mutation: the first sample is not written)
GbaWriteNoFirst ==
  /\ pc = "write"
  /\ pgda' = MagicFQWT \o U32LE(target_sr) \o U32LE(Len(deltas8))
               \o [i \in 1..Len(deltas8) |-> I8Byte(deltas8[i])]
  /\ pc' = "stored"
  /\ UNCHANGED <<status, k, audio_8bit, deltas8, transport, legacy_promotion,
                 hdr, dec_deltas, current_sample, cur_type, recon8, reconstructed_audio>>
  /\ UNCHANGED <<deltav, quantv, auxv>>

\* lines 63-69: magic, sample rate, delta count, first sample, delta bytes
GbaWrite ==
  /\ pc = "write"
  /\ pgda' = MagicFQWT \o U32LE(target_sr) \o U32LE(Len(deltas8))
               \o <<I8Byte(audio_8bit[1])>>
               \o [i \in 1..Len(deltas8) |-> I8Byte(deltas8[i])]
  /\ pc' = "stored"
  /\ UNCHANGED <<status, k, audio_8bit, deltas8, transport, legacy_promotion,
                 hdr, dec_deltas, current_sample, cur_type, recon8, reconstructed_audio>>
  /\ UNCHANGED <<deltav, quantv, auxv>>

\* Between the close of line 69 and the open of line 83 the container is a
\* file: it is read back as written, as another file ('P' of a .pgdd in the
\* first byte), or short of its last bytes.
Storage ==
  /\ pc = "stored"
  /\ \/ /\ transport' = "intact"
        /\ UNCHANGED pgda
     \/ /\ transport' = "badmagic"
        /\ pgda' = [pgda EXCEPT ![1] = 80]
     \/ \E c \in 1..MaxCut :
          /\ c <= Len(pgda)
          /\ transport' = "cut"
          /\ pgda' = SubSeq(pgda, 1, Len(pgda) - c)
  /\ pc' = "read"
  /\ UNCHANGED <<status, k, audio_8bit, deltas8, legacy_promotion,
                 hdr, dec_deltas, current_sample, cur_type, recon8, reconstructed_audio>>
  /\ UNCHANGED <<deltav, quantv, auxv>>

\* f.read(4)
MagicOf(b) == SubSeq(b, 1, Min2(4, Len(b)))

\* (mutation: the magic is not compared)
MagicIgnored(b) == TRUE

\* line 85
MagicMatches(b) == MagicOf(b) = MagicFQWT

\* np.frombuffer(f.read(n), dtype)[0] on the bytes from..from+n-1 of b: no byte
\* left gives an empty array (IndexError), a partial field a ValueError
FieldError(b, from, n) ==
  IF Len(b) >= from + n - 1 THEN "ok"
  ELSE IF Len(b) < from THEN "IndexError"
  ELSE "ValueError"

HeaderError(b) ==
  IF FieldError(b, 5, 4) # "ok" THEN FieldError(b, 5, 4)
  ELSE IF FieldError(b, 9, 4) # "ok" THEN FieldError(b, 9, 4)
  ELSE FieldError(b, 13, 1)

\* lines 83-95: the header, every remaining byte as a delta (num_deltas is
\* read and not used), the accumulator
GbaRead ==
  /\ pc = "read"
  /\ IF ~MagicMatches(pgda)
     THEN /\ pc' = "decode_failed"
          /\ status' = "BadMagic"
          /\ UNCHANGED <<k, hdr, dec_deltas, current_sample, cur_type, recon8>>
     ELSE IF HeaderError(pgda) # "ok"
     THEN /\ pc' = "decode_failed"
          /\ status' = HeaderError(pgda)
          /\ UNCHANGED <<k, hdr, dec_deltas, current_sample, cur_type, recon8>>
     ELSE /\ hdr' = <<U32Read(SubSeq(pgda, 5, 8)), U32Read(SubSeq(pgda, 9, 12)), I8Read(pgda[13])>>
          /\ dec_deltas' = [i \in 1..(Len(pgda) - 13) |-> I8Read(pgda[13 + i])]
          /\ current_sample' = I8Read(pgda[13])
          /\ cur_type' = "int8"
          /\ recon8' = <<I8Read(pgda[13])>>
          /\ k' = 1
          /\ pc' = "recon"
          /\ UNCHANGED status
  /\ UNCHANGED <<audio_8bit, deltas8, pgda, transport, legacy_promotion, reconstructed_audio>>
  /\ UNCHANGED <<deltav, quantv, auxv>>

\* current_sample + delta.  delta is a numpy int8.  An int8 accumulator gives
\* an int8 sum, which wraps.  After min / max returned one of the literals
\* 127, -128 the accumulator is a Python int: the sum is then int8 again under
\* NEP 50 promotion (NumPy 2) and int64 under the legacy promotion, and an
\* int64 accumulator stays int64.
Wrap8(x) == ((x + 128) % 256) - 128
SumWraps(type, legacy) == type = "int8" \/ (type = "pyint" /\ ~legacy)
SumValue(cur, type, legacy, delta) ==
  IF SumWraps(type, legacy) THEN Wrap8(cur + delta) ELSE cur + delta
SumType(type, legacy) == IF SumWraps(type, legacy) THEN "int8" ELSE "int64"

\* max(-128, min(127, next_sample)): the literal is returned at and beyond it
ClampValue(x) == Max2(-128, Min2(127, x))
ClampType(x, type) == IF x >= 127 \/ x <= -128 THEN "pyint" ELSE type

\* lines 97-102: one iteration of the reconstruction loop
GbaReconStep ==
  /\ pc = "recon"
  /\ k <= Len(dec_deltas)
  /\ LET next_sample == SumValue(current_sample, cur_type, legacy_promotion, dec_deltas[k])
     IN  /\ current_sample' = ClampValue(next_sample)
         /\ cur_type' = ClampType(next_sample, SumType(cur_type, legacy_promotion))
         /\ recon8' = Append(recon8, ClampValue(next_sample))
  /\ k' = k + 1
  /\ UNCHANGED <<pc, status, audio_8bit, deltas8, pgda, transport, legacy_promotion,
                 hdr, dec_deltas, reconstructed_audio>>
  /\ UNCHANGED <<deltav, quantv, auxv>>

\* lines 104-106: reconstructed[:-1] (numerators over 127.0) is written
GbaEmit ==
  /\ pc = "recon"
  /\ k > Len(dec_deltas)
  /\ reconstructed_audio' = SubSeq(recon8, 1, Len(recon8) - 1)
  /\ pc' = "done"
  /\ UNCHANGED <<status, k, audio_8bit, deltas8, pgda, transport, legacy_promotion,
                 hdr, dec_deltas, current_sample, cur_type, recon8>>
  /\ UNCHANGED <<deltav, quantv, auxv>>

InitGba ==
  /\ pc = "gba"
  /\ status = "ok"
  /\ k = 0
  /\ audio_8bit \in SeqsUpTo(Q8Vals, MaxLen8)
  /\ legacy_promotion \in BOOLEAN
  /\ deltas8 = <<>>
  /\ pgda = <<>>
  /\ transport = "intact"
  /\ hdr = <<>>
  /\ dec_deltas = <<>>
  /\ current_sample = 0
  /\ cur_type = "int8"
  /\ recon8 = <<>>
  /\ reconstructed_audio = <<>>
  /\ IdleDelta
  /\ IdleQuant
  /\ IdleAux

NextGba ==
  \/ GbaDeltas
  \/ GbaWrite
  \/ Storage
  \/ GbaRead
  \/ GbaReconStep
  \/ GbaEmit

SpecGba == InitGba /\ [][NextGba]_vars

\* --------------------------------------------------- ffmpeg_to_pgda
pgda_target_sr == 11025

\* np.round of the real a/b (b > 0): to nearest, ties to even
RoundHalfEven(a, b) ==
  LET q == a \div b
      r == a % b
  IN  IF 2 * r < b THEN q
      ELSE IF 2 * r > b THEN q + 1
      ELSE IF q % 2 = 0 THEN q ELSE q + 1

\* line 69: np.round(audio_data * 127).astype(np.int8)
PgdaQuantize ==
  /\ pc = "ffmpeg"
  /\ audio_8bit' = [i \in 1..Len(audio_data) |-> Wrap8(RoundHalfEven(audio_data[i] * 127, Unit))]
  /\ pc' = "pgda_diff"
  /\ UNCHANGED <<status, k, deltas8, pgda, transport, legacy_promotion,
                 hdr, dec_deltas, current_sample, cur_type, recon8, reconstructed_audio>>
  /\ UNCHANGED <<deltav, quantv, auxv>>

\* lines 72-73: np.diff of the int8 array is int8 arithmetic, which wraps;
\* audio_8bit[0] needs one sample
PgdaDeltas ==
  /\ pc = "pgda_diff"
  /\ IF Len(audio_8bit) = 0
     THEN /\ pc' = "encode_failed"
          /\ status' = "IndexError"
          /\ UNCHANGED deltas8
     ELSE /\ deltas8' = [i \in 1..(Len(audio_8bit) - 1) |-> Wrap8(Diff(audio_8bit)[i])]
          /\ pc' = "pgda_write"
          /\ UNCHANGED status
  /\ UNCHANGED <<k, audio_8bit, pgda, transport, legacy_promotion,
                 hdr, dec_deltas, current_sample, cur_type, recon8, reconstructed_audio>>
  /\ UNCHANGED <<deltav, quantv, auxv>>

\* lines 76-81
PgdaWrite ==
  /\ pc = "pgda_write"
  /\ pgda' = MagicFQWT \o U32LE(pgda_target_sr) \o U32LE(Len(deltas8))
               \o <<I8Byte(audio_8bit[1])>>
               \o [i \in 1..Len(deltas8) |-> I8Byte(deltas8[i])]
  /\ pc' = "pgda_stored"
  /\ UNCHANGED <<status, k, audio_8bit, deltas8, transport, legacy_promotion,
                 hdr, dec_deltas, current_sample, cur_type, recon8, reconstructed_audio>>
  /\ UNCHANGED <<deltav, quantv, auxv>>

PcmVals == {-1000, 0, 5, 1000}

InitPgda ==
  /\ pc = "ffmpeg"
  /\ status = "ok"
  /\ k = 0
  /\ audio_data \in SeqsUpTo(PcmVals, MaxLen8)
  /\ audio_scaled = <<>>
  /\ run = 1
  /\ first_run = <<>>
  /\ IdleDelta
  /\ IdleQuant
  /\ IdleGba

NextPgda ==
  \/ PgdaQuantize
  \/ PgdaDeltas
  \/ PgdaWrite

SpecPgda == InitPgda /\ [][NextPgda]_vars

\* ------------------------------------- the two 8-bit container writers
InitFixed == InitGba \/ InitPgda

NextFixed ==
  \/ NextGba
  \/ NextPgda

SpecFixed == InitFixed /\ [][NextFixed]_vars

\* ------------------- pack_encoded_data as a function of the entry list
\* lines 118-140 in one piece: the bytes of the file written for ed
RECURSIVE PackLoop(_, _, _, _, _)
RECURSIVE FlushLoop(_, _, _, _, _)
PackLoop(ed, i, buf, nbits, out) ==
  IF i > Len(ed)
  THEN IF nbits > 0 THEN Append(out, buf % 256) ELSE out
  ELSE FlushLoop(ed, i, OrInto(buf, nbits, ed[i][3], ed[i][2]), nbits + ed[i][2], out)
FlushLoop(ed, i, buf, nbits, out) ==
  IF nbits >= 8
  THEN FlushLoop(ed, i, buf \div 256, nbits - 8, Append(out, buf % 256))
  ELSE PackLoop(ed, i + 1, buf, nbits, out)

PackBytes(ed) == PackLoop(ed, 1, 0, 0, MagicPGDD \o U32LE(Len(ed)))

\* ----------------- gba_optimized_compression, lines 28-47, and a second call
\* The resampled audio (numerators over Unit) is scaled to a peak of 121,
\* dithered and rounded.  np.random.triangular(-0.5, 0, 0.5) is unseeded:
\* each sample's dither is any value of DitherVals, numerators over
\* DitherUnit, the ends -0.5 and 0.5 included.  An entry of audio_scaled is <<numerator, denominator>>.
DitherUnit == 10
\* (mutation: dither in [-1.5, 1.5])
DitherWide == {-15, 0, 15}

\* line 43: np.random.triangular(-0.5, 0, 0.5)
DitherVals == {-5, -3, 0, 3, 5}
ResampledVals == {-1000, -4, 0, 500}

audio_peak(s) == CHOOSE p \in {Abs(s[i]) : i \in 1..Len(s)} : \A i \in 1..Len(s) : Abs(s[i]) <= p

\* lines 33-39: np.max of an empty array raises ValueError
ScaleAudio ==
  /\ pc = "scale"
  /\ IF Len(audio_data) = 0
     THEN /\ pc' = "encode_failed"
          /\ status' = "ValueError"
          /\ UNCHANGED audio_scaled
     ELSE /\ audio_scaled' =
               [i \in 1..Len(audio_data) |->
                  IF audio_peak(audio_data) > 0
                  THEN <<121 * audio_data[i], audio_peak(audio_data)>>
                  ELSE <<127 * audio_data[i], Unit>>]
          /\ pc' = "dither"
          /\ UNCHANGED status
  /\ UNCHANGED <<k, audio_data, run, first_run>>
  /\ UNCHANGED <<deltav, quantv, gbav>>

\* lines 43-47: np.clip(np.round(audio_scaled + dither), -128, 127)
DitherQuantize ==
  /\ pc = "dither"
  /\ \E dither \in [1..Len(audio_scaled) -> DitherVals] :
       audio_8bit' =
         [i \in 1..Len(audio_scaled) |->
            Clip8(RoundHalfEven(DitherUnit * audio_scaled[i][1] + dither[i] * audio_scaled[i][2],
                                DitherUnit * audio_scaled[i][2]))]
  /\ pc' = "gba"
  /\ UNCHANGED <<status, k, deltas8, pgda, transport, legacy_promotion,
                 hdr, dec_deltas, current_sample, cur_type, recon8, reconstructed_audio>>
  /\ UNCHANGED <<deltav, quantv, auxv>>

\* gba_optimized_compression is called again on the same input; the
\* container of the first call is kept in first_run
RerunGba ==
  /\ pc = "stored"
  /\ run = 1
  /\ first_run' = pgda
  /\ run' = 2
  /\ pc' = "scale"
  /\ audio_scaled' = <<>>
  /\ audio_8bit' = <<>>
  /\ deltas8' = <<>>
  /\ pgda' = <<>>
  /\ UNCHANGED <<status, k, audio_data, transport, legacy_promotion,
                 hdr, dec_deltas, current_sample, cur_type, recon8, reconstructed_audio>>
  /\ UNCHANGED <<deltav, quantv>>

\* compress_audio_delta and pack_encoded_data are called again on the same
\* samples; the bytes of the first call are kept in first_run
RerunDelta ==
  /\ pc = "packed"
  /\ run = 1
  /\ first_run' = file
  /\ run' = 2
  /\ pc' = "compress"
  /\ k' = 0
  /\ encoded_data' = <<>>
  /\ compression_info' = NoInfo
  /\ first_sample' = 0
  /\ file' = <<>>
  /\ bit_buffer' = 0
  /\ bits_in_buffer' = 0
  /\ UNCHANGED <<status, audio, reconstructed, unpacked, audio_data, audio_scaled>>
  /\ UNCHANGED <<quantv, gbav>>

InitDither ==
  /\ pc = "scale"
  /\ status = "ok"
  /\ k = 0
  /\ audio_data \in SeqsUpTo(ResampledVals, MaxLenD)
  /\ audio_scaled = <<>>
  /\ run = 1
  /\ first_run = <<>>
  /\ IdleDelta
  /\ IdleQuant
  /\ IdleGba

InitTwice == InitDelta \/ InitDither

NextTwice ==
  \/ NextDelta
  \/ RerunDelta
  \/ ScaleAudio
  \/ DitherQuantize
  \/ GbaDeltas
  \/ GbaWrite
  \/ RerunGba

SpecTwice == InitTwice /\ [][NextTwice]_vars

\* ------------------------------------------------ runs to completion
\* Either codec run from its start.  Both programs are single-threaded and
\* block on nothing: a step that can be taken is taken.
InitLive == InitDelta \/ InitGba

NextLive ==
  \/ NextDelta
  \/ NextGba

SpecLive == InitLive /\ [][NextLive]_vars /\ WF_vars(NextLive)

\* --------------------------- the mask of pack_encoded_data on its own
\* line 129, value & ((1 << bits) - 1), for one code of one width: every
\* signed code of the width and every unsigned pattern of it
MaskWidths == {4, 8, 12, 16}

Mask ==
  /\ pc = "mask"
  /\ qresult' = MaskBits(qdelta, qbits)
  /\ pc' = "masked"
  /\ UNCHANGED <<status, k, qdelta, qbits, deltav, gbav, auxv>>

InitMask ==
  /\ pc = "mask"
  /\ status = "ok"
  /\ k = 0
  /\ qbits \in MaskWidths
  /\ qdelta \in -Pow2(qbits - 1)..(Pow2(qbits) - 1)
  /\ qresult = 0
  /\ IdleDelta
  /\ IdleGba
  /\ IdleAux

NextMask == Mask

SpecMask == InitMask /\ [][NextMask]_vars

\* ================================================================ claims

\* ---- C1 (SpecPack)
\* C1: unpacking the bytes written by the packing loop with the same width
\* sequence returns the original codes (the value masked to its width, which
\* is the value itself when it is already masked), whatever the total bit
\* length is modulo 8; no padding bit appears in a decoded value.
C1_PackUnpackRoundTrip ==
  pc = "unpacked" =>
    /\ status = "ok"
    /\ Len(unpacked) = Len(encoded_data)
    /\ \A i \in 1..Len(encoded_data) :
         /\ unpacked[i] = MaskBits(encoded_data[i][3], encoded_data[i][2])
         /\ (encoded_data[i][3] >= 0 /\ encoded_data[i][3] < Pow2(encoded_data[i][2]))
              => unpacked[i] = encoded_data[i][3]

C1_Witness ==
  /\ pc = "unpacked"
  /\ Len(encoded_data) = 3
  /\ SumBits(encoded_data) % 8 = 4
  /\ \A i \in 1..3 : encoded_data[i][3] >= 0
  /\ unpacked = [i \in 1..3 |-> encoded_data[i][3]]
  /\ unpacked[1] # unpacked[2]

\* ---- C2 (SpecDelta)
\* C2: every delta gets exactly one tier: Small (4 bits) iff |delta| < 0.01,
\* Medium (8 bits) iff 0.01 <= |delta| < 0.1, Large (12 bits) iff
\* |delta| >= 0.1; the deltas of the scenario are Small, Small, Large, Large.
EntryDelta(j) == Diff(audio)[j - 1]

C2_TierPartition ==
  /\ \A j \in 2..Len(encoded_data) :
       LET d == Abs(EntryDelta(j))
           e == encoded_data[j]
       IN  /\ e[2] \in {4, 8, 12}
           /\ (e[2] = 4) <=> (d * 100 < Unit)
           /\ (e[2] = 8) <=> (d * 100 >= Unit /\ d * 10 < Unit)
           /\ (e[2] = 12) <=> (d * 10 >= Unit)
           /\ (e[1] = "small") <=> (e[2] = 4)
           /\ (e[1] = "medium") <=> (e[2] = 8)
           /\ (e[1] = "large") <=> (e[2] = 12)
  /\ (audio = Scenario /\ pc = "done")
       => [j \in 1..4 |-> encoded_data[j + 1][1]] = <<"small", "small", "large", "large">>

C2_Witness ==
  /\ pc = "done"
  /\ \E i, j \in 2..Len(encoded_data) :
       /\ Abs(EntryDelta(i)) * 100 = Unit
       /\ encoded_data[i][2] = 8
       /\ Abs(EntryDelta(j)) * 10 = Unit
       /\ encoded_data[j][2] = 12

\* ---- C3 (SpecQuant)
\* C3: quantize_delta always returns a value of the signed range of its width,
\* also for |delta| > 1: quantize(2.0, 8) = 127 and quantize(-2.0, 8) = -128.
C3_QuantizeSaturates ==
  pc = "quantized" =>
    /\ status = "ok"
    /\ qresult >= -Pow2(qbits - 1)
    /\ qresult <= Pow2(qbits - 1) - 1
    /\ (qdelta = 2 * Unit /\ qbits = 8) => qresult = 127
    /\ (qdelta = -2 * Unit /\ qbits = 8) => qresult = -128

C3_Witness ==
  /\ pc = "quantized"
  /\ qdelta = -2 * Unit
  /\ qbits = 8
  /\ qresult = -128

\* ---- C4 (SpecGba)
\* The decoder has opened the file.
Decoding == pc \in {"recon", "done", "decode_failed"}

\* C4: a buffer whose first 4 bytes are not the magic is rejected with BadMagic
\* before a header field is read and before a sample is rebuilt or written.
C4_BadMagicRejected ==
  (Decoding /\ MagicOf(pgda) # MagicFQWT) =>
    /\ pc = "decode_failed"
    /\ status = "BadMagic"
    /\ hdr = <<>>
    /\ dec_deltas = <<>>
    /\ recon8 = <<>>
    /\ reconstructed_audio = <<>>

C4_Witness ==
  /\ pc = "decode_failed"
  /\ status = "BadMagic"
  /\ transport = "badmagic"
  /\ Len(pgda) = 15
  /\ SubSeq(pgda, 2, 4) = SubSeq(MagicFQWT, 2, 4)

\* ---- C5 (SpecGba)
\* the delta count of the header of a buffer, and the delta bytes it holds
DeclaredCount(b) == U32Read(SubSeq(b, 9, 12))
DeltaBytes(b) == Len(b) - 13

\* C5: a buffer that declares more deltas than it holds is rejected with
\* TruncatedStream and no sample is rebuilt from it.
C5_TruncatedRejected ==
  (Decoding /\ MagicMatches(pgda) /\ Len(pgda) >= 13 /\ DeclaredCount(pgda) > DeltaBytes(pgda)) =>
    /\ pc = "decode_failed"
    /\ status = "TruncatedStream"
    /\ recon8 = <<>>
    /\ reconstructed_audio = <<>>

\* ---- C6 (SpecGba)
\* C6: decoding the container written for N samples emits N samples.
C6_LengthPreserved ==
  (pc = "done" /\ transport = "intact") =>
    Len(reconstructed_audio) = Len(audio_8bit)

\* ---- C7 (SpecGba)
\* deltas up to index i that the encoder clamped
ClampedUpTo(i) ==
  Cardinality({j \in 2..i : audio_8bit[j] - audio_8bit[j - 1] \notin -128..127})
\* decoder steps up to index i whose true sum left [-128, 127]
OverflowsUpTo(i) ==
  Cardinality({j \in 2..i : recon8[j - 1] + dec_deltas[j - 1] \notin -128..127})
ReconError(i) == Abs(recon8[i] - audio_8bit[i])

\* C7 as claimed: the error at index i is at most one unit, plus one unit per clamped delta or decoder
\* saturation up to index i.
C7_OneUnitPerClamp ==
  (pc = "done" /\ transport = "intact") =>
    \A i \in 1..Len(recon8) : ReconError(i) <= 1 + ClampedUpTo(i) + OverflowsUpTo(i)

\* C7 amended: the error at index i is at most 128 units per clamped delta plus 256 units per overflow of the
\* decoder's 8-bit sum up to index i; exact while no delta was clamped.
C7_ErrorBound ==
  (pc = "done" /\ transport = "intact") =>
    /\ Len(recon8) = Len(audio_8bit)
    /\ \A i \in 1..Len(recon8) :
         ReconError(i) <= 128 * ClampedUpTo(i) + 256 * OverflowsUpTo(i)

C7_Witness ==
  /\ pc = "done"
  /\ transport = "intact"
  /\ Len(recon8) = 3
  /\ ClampedUpTo(2) = 1
  /\ ReconError(2) = 128
  /\ ClampedUpTo(3) = 1
  /\ OverflowsUpTo(3) = 1

\* ---- C8 (SpecDelta)
\* C8: for the scenario [0.0, 0.005, -0.002, 0.5, -0.5] the values rebuilt at
\* indices 1 and 2 are within 1/2047 of 0.005 and -0.002.
C8_ScenarioSmallSteps ==
  (audio = Scenario /\ pc = "done") =>
    \A i \in {2, 3} :
      /\ RatLeq(reconstructed[i], audio[i], 1)
      /\ RatGeq(reconstructed[i], audio[i], -1)

\* ---- C9 (SpecDelta)
\* The u32 at offset 4 of the written file.
EntryCount == U32Read(SubSeq(file, 5, 8))

C10_DecodeAccumulates ==
  pc = "done" =>
    /\ Len(reconstructed) = Len(audio)
    /\ reconstructed[1] = RatOf(encoded_data[1][3], 32767)
    /\ \A i \in 2..Len(audio) :
         reconstructed[i] =
           RatAdd(reconstructed[i - 1], encoded_data[i][3], Pow2(encoded_data[i][2] - 1) - 1)

\* a rebuilt value below -1
C10_Witness ==
  /\ pc = "done"
  /\ Len(audio) = 3
  /\ ~RatGeq(reconstructed[3], -Unit, 0)
  /\ RatGeq(reconstructed[2], -Unit, 0)

\* ---- C11 (SpecDelta)
\* the low n bits of the stream that starts at byte offset 10 (n <= 12)
StreamLow(f, n) == (f[11] + (IF Len(f) >= 12 THEN 256 * f[12] ELSE 0)) % Pow2(n)

\* C11: the written file is the 4-byte magic, the little-endian u32 entry
\* count, the reference as a little-endian two's-complement i16 at offsets
\* 8-9, and the packed delta codes from bit 0 of byte 10.
C11_ContainerLayout ==
  pc \in {"packed", "decode", "done"} =>
    /\ SubSeq(file, 1, 4) = <<80, 71, 68, 68>>
    /\ SubSeq(file, 5, 8) = <<Len(encoded_data) % 256, 0, 0, 0>>
    /\ file[9] + 256 * file[10] = (IF first_sample >= 0 THEN first_sample ELSE first_sample + 65536)
    /\ first_sample = encoded_data[1][3]
    /\ first_sample \in -32768..32767
    /\ StreamLow(file, encoded_data[2][2])
         = (IF encoded_data[2][3] >= 0 THEN encoded_data[2][3]
            ELSE encoded_data[2][3] + Pow2(encoded_data[2][2]))

C11_Witness ==
  /\ pc = "packed"
  /\ first_sample = -32767
  /\ SubSeq(file, 9, 10) = <<1, 128>>
  /\ encoded_data[2] = <<"large", 12, 2047>>
  /\ file[11] = 255
  /\ file[12] % 16 = 7

\* ---- C12 (SpecFixed)
Written == pc \in {"stored", "pgda_stored"}
WrittenRate == IF pc = "stored" THEN 6750 ELSE 11025

\* C12: the container written for N samples has 13 + (N - 1) bytes: magic,
\* u32 sample rate, u32 delta count N - 1, the i8 first sample q[0], then one
\* byte per delta of the encoder's delta array, in order.
C12_FixedLayout ==
  Written =>
    /\ Len(pgda) = 13 + (Len(audio_8bit) - 1)
    /\ SubSeq(pgda, 1, 4) = <<70, 81, 87, 84>>
    /\ U32Read(SubSeq(pgda, 5, 8)) = WrittenRate
    /\ U32Read(SubSeq(pgda, 9, 12)) = Len(audio_8bit) - 1
    /\ I8Read(pgda[13]) = audio_8bit[1]
    /\ Len(deltas8) = Len(audio_8bit) - 1
    /\ \A i \in 1..Len(deltas8) : I8Read(pgda[13 + i]) = deltas8[i]

C12_Witness ==
  /\ pc = "stored"
  /\ audio_8bit = <<-128, -1, 127>>
  /\ Len(pgda) = 15
  /\ SubSeq(pgda, 13, 15) = <<128, 127, 127>>

\* ---- C15 (SpecFixed)
\* C15: every serialized delta byte is clamp(q[i] - q[i-1], -128, 127), the
\* difference taken without 8-bit wraparound.
C15_DeltaSaturates ==
  Written =>
    \A i \in 1..(Len(audio_8bit) - 1) :
      I8Read(pgda[13 + i]) = Max2(-128, Min2(127, audio_8bit[i + 1] - audio_8bit[i]))

\* ---- C13 (SpecDelta)
\* C13: encoding succeeds for every non-empty sample sequence; for one
\* sample the result holds the reference entry and no delta entry.
C13_NonEmptyEncodes ==
  (Len(audio) >= 1 /\ pc # "compress") =>
    /\ pc # "failed"
    /\ Len(encoded_data) >= 1
    /\ encoded_data[1][1] = "reference"
    /\ (Len(audio) = 1 /\ pc = "pack") => Len(encoded_data) = 1

\* ---- C14 (SpecDelta)
\* C14: encoding zero samples fails with EmptyInput and produces no entry
\* list and no container.
C14_EmptyInputRejected ==
  (Len(audio) = 0 /\ pc # "compress") =>
    /\ pc = "failed"
    /\ status = "EmptyInput"
    /\ encoded_data = <<>>
    /\ file = <<>>

\* ---- C16 (SpecPack)
\* The last two entries of ed cut the other way round: the same bits, the
\* two widths exchanged.
Respelt(ed) ==
  LET n == Len(ed)
      a == ed[n - 1]
      b == ed[n]
      bits == MaskBits(a[3], a[2]) + MaskBits(b[3], b[2]) * Pow2(a[2])
  IN  [i \in 1..n |->
         IF i = n - 1 THEN <<b[1], b[2], bits % Pow2(b[2])>>
         ELSE IF i = n THEN <<a[1], a[2], bits \div Pow2(b[2])>>
         ELSE ed[i]]

MixedTail(ed) == Len(ed) >= 3 /\ ed[Len(ed) - 1][2] # ed[Len(ed)][2]

\* C16: without a width marker the stream is ambiguous: a packed entry list
\* whose last two widths differ has a different entry list of the same
\* count and the same first (reference) entry that packs to the same bytes.
C16_AmbiguousStream ==
  (pc \in {"packed", "unpacked"} /\ MixedTail(encoded_data)) =>
    /\ Respelt(encoded_data) # encoded_data
    /\ Len(Respelt(encoded_data)) = Len(encoded_data)
    /\ Respelt(encoded_data)[1] = encoded_data[1]
    /\ PackBytes(Respelt(encoded_data)) = file

C16_Witness ==
  /\ pc = "packed"
  /\ encoded_data = <<<<"reference", 16, 4660>>, <<"small", 4, 5>>, <<"medium", 8, 100>>>>
  /\ Respelt(encoded_data) = <<<<"reference", 16, 4660>>, <<"medium", 8, 69>>, <<"small", 4, 6>>>>
  /\ PackBytes(Respelt(encoded_data)) = file

\* ---- C18 (SpecQuant)
\* C18: for a delta in [-1, 1] quantize_delta returns the scaled delta
\* rounded to the nearest integer, clamped to the signed range of the width.
C18_QuantizeRounds ==
  (pc = "quantized" /\ Abs(qdelta) <= Unit) =>
    qresult = Max2(min_val(qbits),
                   Min2(max_val(qbits), RoundHalfEven(qdelta * max_val(qbits), Unit)))

\* ---- C19 (SpecDelta)
\* C19: the reference is samples[0] * 32767 rounded to the nearest integer,
\* and the first decoded value, reference / 32767, is within half a 16-bit
\* step of samples[0].
C19_ReferenceRounds ==
  (pc = "done" /\ Abs(audio[1]) <= Unit) =>
    /\ encoded_data[1][3] = RoundHalfEven(audio[1] * 32767, Unit)
    /\ reconstructed[1] = RatOf(encoded_data[1][3], 32767)
    /\ 2 * Abs(audio[1] * 32767 - Unit * reconstructed[1][32767]) <= Unit

\* ---- C20 (SpecGba)
\* C20: in the fixed-width decode the accumulator is in [-128, 127] after
\* every delta byte and each step is the saturated sum: the previous value
\* plus the delta, limited to [-128, 127], never wrapped.
C20_AccumulatorSaturates ==
  pc \in {"recon", "done"} =>
    \A i \in 2..Len(recon8) :
      /\ recon8[i] \in -128..127
      /\ recon8[i] = Max2(-128, Min2(127, recon8[i - 1] + dec_deltas[i - 1]))

\* ---- C17 (SpecTwice)
\* C17 as stated: a second run of either encoder on the same input writes
\* the same bytes as the first.
C17_EncodePure ==
  /\ (run = 2 /\ pc = "packed") => file = first_run
  /\ (run = 2 /\ pc = "stored") => pgda = first_run

\* C17: a second run of the variable-width encoder writes the same bytes;
\* a second run of the dithered encoder writes a container of the same
\* length with the same 12 header bytes, a first sample at most 2 away and
\* every delta at most 4 away from the first run's.
C17_PureUpToDither ==
  /\ (run = 2 /\ pc = "packed") => file = first_run
  /\ (run = 2 /\ pc = "stored") =>
       /\ Len(pgda) = Len(first_run)
       /\ SubSeq(pgda, 1, 12) = SubSeq(first_run, 1, 12)
       /\ Abs(I8Read(pgda[13]) - I8Read(first_run[13])) <= 2
       /\ \A i \in 14..Len(pgda) : Abs(I8Read(pgda[i]) - I8Read(first_run[i])) <= 4

\* two dithered runs on the same input whose containers differ, the first
\* sample by 2 and a delta by 4
C17_Witness ==
  /\ run = 2
  /\ pc = "stored"
  /\ Len(pgda) >= 14
  /\ Abs(I8Read(pgda[13]) - I8Read(first_run[13])) = 2
  /\ Abs(I8Read(pgda[14]) - I8Read(first_run[14])) = 4

\* ---- C21 (SpecPack)
\* C21: once the flush loop of an entry has ended the bit buffer holds 0 to
\* 7 bits; 8 or more bits are held only between OR-ing an entry in and the
\* end of that entry's flush loop, and then at most 7 plus the entry's width.
C21_CarryBelowByte ==
  /\ pc # "flush" => bits_in_buffer \in 0..7
  /\ pc = "flush" => bits_in_buffer \in 0..(7 + encoded_data[k][2])

\* a carry of 4 bits left by the first entry, 20 bits held before the flush
\* of the second
C21_Witness ==
  /\ pc = "flush"
  /\ k = 2
  /\ encoded_data[1][2] = 4
  /\ encoded_data[2][2] = 16
  /\ bits_in_buffer = 20

\* ---- C22 (SpecPack)
\* bit j of the stream that follows the 8 header bytes
StreamBit(f, j) == (f[9 + (j \div 8)] \div Pow2(j % 8)) % 2

\* the stream position of the low bit of entry n
StreamOffset(ed, n) == SumBits(SubSeq(ed, 1, n - 1))

\* C22: entry n occupies the stream bits from the sum of the widths before
\* it, low bit first, and stream bit j is bit j mod 8 of byte j div 8.
C22_LsbFirst ==
  pc \in {"packed", "unpacked"} =>
    \A n \in 1..Len(encoded_data) :
      \A j \in 0..(encoded_data[n][2] - 1) :
        StreamBit(file, StreamOffset(encoded_data, n) + j)
          = (MaskBits(encoded_data[n][3], encoded_data[n][2]) \div Pow2(j)) % 2

\* two 4-bit codes a = 5 and b = -8 (pattern 8) in the one byte a | (b << 4)
C22_Witness ==
  /\ pc = "packed"
  /\ encoded_data = <<<<"small", 4, 5>>, <<"small", 4, -8>>>>
  /\ file = <<80, 71, 68, 68, 2, 0, 0, 0, 133>>

\* ---- C23 (SpecDelta)
\* C23: with every sample in [-1, 1], a step whose code is the 12-bit floor
\* -2048 (a delta of -2048/2047) taken from a rebuilt value that is not
\* above 0 gives a rebuilt value below -1: nothing clamps it.
C23_DriftReachable ==
  pc = "done" =>
    /\ \A i \in 1..Len(audio) : Abs(audio[i]) <= Unit
    /\ \A i \in 2..Len(audio) :
         (encoded_data[i][3] = -2048 /\ RatLeq(reconstructed[i - 1], 0, 0))
           => ~RatGeq(reconstructed[i], -Unit, 0)

\* samples -1, 1, -1 are rebuilt as -1, 0, -2048/2047
C23_Witness ==
  /\ pc = "done"
  /\ audio = <<-1000, 1000, -1000>>
  /\ encoded_data[3] = <<"large", 12, -2048>>
  /\ reconstructed[2] = RatAdd(RatOf(-32767, 32767), 2047, 2047)
  /\ reconstructed[3] = RatAdd(reconstructed[2], -2048, 2047)
  /\ ~RatGeq(reconstructed[3], -Unit, 0)

\* ---- C24 (SpecLive)
Terminated == pc \in {"done", "failed", "encode_failed", "decode_failed"}

\* C24: every run ends, in a result or in a failure; the flush loop of an
\* entry runs at most twice (at most 23 bits are held when it starts); the
\* encode, decode and reconstruction loops have done exactly one step per
\* delta passed and never go past the last delta.
C24_Terminates ==
  /\ <>Terminated
  /\ [](pc = "flush" => bits_in_buffer \div 8 <= 2)
  /\ [](pc = "encode" => (Len(encoded_data) = k /\ k <= Len(audio)))
  /\ [](pc = "decode" => (Len(reconstructed) = k - 1 /\ k <= Len(encoded_data) + 1))
  /\ [](pc = "recon" => (Len(recon8) = k /\ k <= Len(dec_deltas) + 1))

\* a finished variable-width run over three samples
C24_Witness ==
  /\ pc = "done"
  /\ Len(audio) = 3
  /\ Len(encoded_data) = 3
  /\ Len(reconstructed) = 3
  /\ k = 4

\* ---- C25 (SpecDelta)
\* C25: every entry of the Small tier carries the code 0 (no 4-bit code
\* other than 0 is ever emitted), and the value rebuilt for a Small-tier
\* step is the value rebuilt before it.
C25_SmallTierIsZero ==
  /\ \A i \in 1..Len(encoded_data) :
       (encoded_data[i][1] = "small" \/ encoded_data[i][2] = 4) =>
         (encoded_data[i] = <<"small", 4, 0>> /\ Abs(Diff(audio)[i - 1]) < small_delta_threshold)
  /\ pc = "done" =>
       \A i \in 2..Len(encoded_data) :
         encoded_data[i][1] = "small" => reconstructed[i] = reconstructed[i - 1]

\* samples 0, 0.005, -0.002: two Small-tier steps, three equal rebuilt values
C25_Witness ==
  /\ pc = "done"
  /\ audio = <<0, 5, -2>>
  /\ encoded_data = <<<<"reference", 16, 0>>, <<"small", 4, 0>>, <<"small", 4, 0>>>>
  /\ reconstructed = <<RatZero, RatZero, RatZero>>

\* ---- C26 (SpecGba)
\* the true difference q[i+1] - q[i] is outside the int8 range
DeltaClamped(i) == Diff(audio_8bit)[i] < -128 \/ Diff(audio_8bit)[i] > 127
ClampedBefore(j) == \E i \in 1..(j - 1) : DeltaClamped(i)
\* accumulator minus original at index j
Offset(j) == recon8[j] - audio_8bit[j]
Rebuilding == pc \in {"recon", "done"} /\ transport = "intact"

\* C26 as stated: with no difference outside [-128, 127] the accumulator
\* equals q at every index; after a clamped delta the offset stays the same
\* over every later step whose delta is not clamped.
C26_OffsetCarried ==
  Rebuilding =>
    /\ (~ClampedBefore(Len(audio_8bit))) => \A j \in 1..Len(recon8) : recon8[j] = audio_8bit[j]
    /\ \A j \in 2..Len(recon8) :
         (ClampedBefore(j - 1) /\ ~DeltaClamped(j - 1)) => Offset(j) = Offset(j - 1)

\* C26: with no difference outside [-128, 127] the accumulator equals q at
\* every index; after a clamped delta the offset stays the same over every
\* later step whose delta is not clamped and whose sum, accumulator plus
\* delta, is inside [-128, 127].
C26_OffsetCarriedInRange ==
  Rebuilding =>
    /\ (~ClampedBefore(Len(audio_8bit))) => \A j \in 1..Len(recon8) : recon8[j] = audio_8bit[j]
    /\ \A j \in 2..Len(recon8) :
         (/\ ClampedBefore(j - 1)
          /\ ~DeltaClamped(j - 1)
          /\ recon8[j - 1] + dec_deltas[j - 1] \in -128..127) => Offset(j) = Offset(j - 1)

\* q = -128, 127, 127: the delta 255 is written as 127 and the offset -128
\* is kept by the next step
C26_Witness ==
  /\ pc = "done"
  /\ transport = "intact"
  /\ audio_8bit = <<-128, 127, 127>>
  /\ recon8 = <<-128, -1, -1>>

\* ---- C27 (SpecDelta)
\* the number of entries of ed appended under the tier name
EntriesNamed(ed, name) == Cardinality({i \in 1..Len(ed) : ed[i][1] = name})

\* C27: once encoding has finished, the three mask counts of the statistics
\* are the numbers of 'small', 'medium' and 'large' entries in the list,
\* they add up to len(samples) - 1, and compressed_bits is
\* 16 + 4 * small + 8 * medium + 12 * large.
C27_StatsMatchEntries ==
  pc \in {"pack", "packloop", "flush", "packed", "decode", "done"} =>
    /\ compression_info.small_deltas = EntriesNamed(encoded_data, "small")
    /\ compression_info.medium_deltas = EntriesNamed(encoded_data, "medium")
    /\ compression_info.large_deltas = EntriesNamed(encoded_data, "large")
    /\ compression_info.small_deltas + compression_info.medium_deltas
         + compression_info.large_deltas = Len(audio) - 1
    /\ compression_info.delta_samples = Len(audio) - 1
    /\ compression_info.compressed_bits =
         16 + 4 * compression_info.small_deltas + 8 * compression_info.medium_deltas
            + 12 * compression_info.large_deltas

\* a delta on the 0.01 boundary (medium) and a large one: 36 bits
C27_Witness ==
  /\ pc = "pack"
  /\ audio = <<0, 10, 1000>>
  /\ compression_info.small_deltas = 0
  /\ compression_info.medium_deltas = 1
  /\ compression_info.large_deltas = 1
  /\ compression_info.compressed_bits = 36

\* ---- C28 (SpecMask)
\* the signed codes of a width
CodeRange(bits) == -Pow2(bits - 1)..(Pow2(bits - 1) - 1)
\* a bit pattern of the width read as two's complement
SignExtend(pattern, bits) == IF pattern >= Pow2(bits - 1) THEN pattern - Pow2(bits) ELSE pattern

\* C28: for a signed code in the range of its width, the masked pattern is
\* in 0..2^bits - 1 and its sign extension is the code; the codes of a
\* width have as many patterns as there are codes (no two share one).
C28_MaskReversible ==
  (pc = "masked" /\ qdelta \in CodeRange(qbits)) =>
    /\ qresult \in 0..(Pow2(qbits) - 1)
    /\ SignExtend(qresult, qbits) = qdelta
    /\ qdelta = 0 =>
         Cardinality({MaskBits(c, qbits) : c \in CodeRange(qbits)}) = Pow2(qbits)

\* the 16-bit floor -32768 masked to 0x8000
C28_Witness ==
  /\ pc = "masked"
  /\ qbits = 16
  /\ qdelta = -32768
  /\ qresult = 32768

\* ---- C29 (SpecPack)
\* C29: the written file has 8 + ceil(T / 8) bytes, T the sum of the widths
\* of all entries: T div 8 whole bytes, and one more byte exactly when
\* T mod 8 is not 0 (the bits then still held are those T mod 8 bits).
C29_FileLength ==
  pc \in {"packed", "unpacked"} =>
    /\ Len(file) = 8 + (SumBits(encoded_data) + 7) \div 8
    /\ bits_in_buffer = SumBits(encoded_data) % 8
    /\ (Len(file) = 8 + SumBits(encoded_data) \div 8 + 1) <=> (SumBits(encoded_data) % 8 # 0)
    /\ (Len(file) = 8 + SumBits(encoded_data) \div 8) <=> (SumBits(encoded_data) % 8 = 0)

\* 16 + 4 + 8 = 28 bits: three whole bytes and a partial one
C29_Witness ==
  /\ pc = "packed"
  /\ Len(encoded_data) = 3
  /\ SumBits(encoded_data) = 28
  /\ bits_in_buffer = 4
  /\ Len(file) = 12

\* ---- C30 (SpecPack)
\* C30: at every point of packing the buffer has no bit set at or above
\* bits_in_buffer, at most 23 bits are held (so the buffer is below 2^32),
\* and the bits of the final partial byte above the held ones are 0.
C30_NoStrayBits ==
  /\ bits_in_buffer \in 0..23
  /\ bit_buffer >= 0
  /\ bit_buffer < Pow2(bits_in_buffer)
  /\ (pc \in {"packed", "unpacked"} /\ bits_in_buffer > 0) =>
       file[Len(file)] < Pow2(bits_in_buffer)

\* a 4-bit 5 and then the 16-bit pattern 40000 above it: 20 bits held
C30_Witness ==
  /\ pc = "flush"
  /\ k = 2
  /\ bits_in_buffer = 20
  /\ bit_buffer = 5 + 16 * 40000

====
